---- MODULE Spec2Model ----
(***************************************************************************)
(* A model of wikibaseintegrator/entities/baseentity.py: the BaseEntity    *)
(* class (claim attachment, JSON mapping, get, _write/clear and the        *)
(* process-wide fast-run registry).  The claim container, the fast-run     *)
(* container and the API helper are collaborators that live outside        *)
(* baseentity.py; the container operators are modelled from the design     *)
(* document, the helper as a nondeterministic response.                    *)
(***************************************************************************)
EXTENDS Integers, Sequences, FiniteSets, TLC

VARIABLES
    ent,               \* entity index -> the BaseEntity object's fields
    fast_run_store,    \* BaseEntity.fast_run_store, the class-level list
    config,            \* the configuration dictionary (SPARQL_ENDPOINT_URL)
    last               \* the last call: its input, the state before, its outcome

vars == <<ent, fast_run_store, config, last>>

----------------------------------------------------------------------------
(* Bounds of the model *)

MaxClaims == 4         \* most claims an entity holds
MaxRev == 2            \* largest revision number a response carries

----------------------------------------------------------------------------
(* Values *)

None == "None"                     \* Python's None where a string is expected
NoRev == -1                        \* Python's None where a revision is expected
Absent == "<absent>"               \* a key a dictionary does not hold
AbsentRev == -2                    \* the same, where a revision is expected

ETYPE == "base-entity"
MEDIAINFO == "mediainfo"

Props == {"P1", "P2"}
Values == {"a", "b"}
\* The values a claim of each property takes in the model.
ValuesOf(p) == IF p = "P1" THEN Values ELSE {"a"}
EntityIds == {"Q1", "Q2"}
Policies == {"APPEND", "FORCE_APPEND", "KEEP", "REPLACE"}

\* Python truthiness of an id (None and '' are falsy) and of a revision
\* (None and 0 are falsy).
TruthyId(id) == id # None /\ id # ""
TruthyRev(rev) == rev # NoRev /\ rev # 0

Range(s) == {s[i] : i \in 1..Len(s)}

----------------------------------------------------------------------------
(* The claim container (models/claims.py) *)

\* A claim built by a datatype constructor: no server id, not removed.
NewClaim(p, v) == [prop |-> p, value |-> v, id |-> None, removed |-> FALSE]

NewClaims == UNION {{NewClaim(p, v) : v \in ValuesOf(p)} : p \in Props}

\* Claims(): the empty container, property -> list of claims.
EmptyClaims == [p \in Props |-> <<>>]

\* Duplicate detection is value-based: same property, same value payload.
ClaimEq(c, d) == c.prop = d.prop /\ c.value = d.value

Present(list, c) == \E i \in 1..Len(list) : ClaimEq(list[i], c)

AppendOne(claims, c) == [claims EXCEPT ![c.prop] = Append(@, c)]

MarkList(list) ==
    IF list = <<>> THEN <<>>
    ELSE [i \in 1..Len(list) |-> [list[i] EXCEPT !.removed = TRUE]]

\* REPLACE: every existing claim of the incoming properties is flagged removed.
MarkRemoved(claims, props) ==
    [p \in Props |-> IF p \in props THEN MarkList(claims[p]) ELSE claims[p]]

RECURSIVE AddAll(_, _, _, _)
AddAll(orig, claims, incoming, policy) ==
    IF incoming = <<>> THEN claims
    ELSE LET c == Head(incoming)
             next ==
                 CASE policy = "APPEND" ->
                          IF Present(claims[c.prop], c) THEN claims
                          ELSE AppendOne(claims, c)
                   [] policy = "FORCE_APPEND" -> AppendOne(claims, c)
                   [] policy = "KEEP" ->
                          IF orig[c.prop] # <<>> THEN claims
                          ELSE AppendOne(claims, c)
                   [] policy = "REPLACE" -> AppendOne(claims, c)
         IN  AddAll(orig, next, Tail(incoming), policy)

\* Claims.add(claims=..., action_if_exists=...)
Claims_add(claims, incoming, policy) ==
    AddAll(claims,
           IF policy = "REPLACE"
           THEN MarkRemoved(claims, {incoming[i].prop : i \in 1..Len(incoming)})
           ELSE claims,
           incoming, policy)

\* Claim.get_json: a removed claim with a server id is a deletion instruction.
Claim_get_json(c) ==
    IF c.removed /\ c.id # None
    THEN [id |-> c.id, remove |-> ""]
    ELSE IF c.id # None
         THEN [mainsnak |-> [property |-> c.prop, datavalue |-> c.value], id |-> c.id]
         ELSE [mainsnak |-> [property |-> c.prop, datavalue |-> c.value]]

\* Claims.get_json: property -> list of statement JSON, for the properties held.
Claims_get_json(claims) ==
    [p \in {q \in Props : claims[q] # <<>>} |->
        [i \in 1..Len(claims[p]) |-> Claim_get_json(claims[p][i])]]

\* Claim().from_json of one statement of the wire format.
Claim_from_json(s) ==
    [prop |-> s.mainsnak.property, value |-> s.mainsnak.datavalue,
     id |-> s.id, removed |-> FALSE]

RECURSIVE ParseList(_, _)
ParseList(claims, list) ==
    IF list = <<>> THEN claims
    ELSE ParseList(AppendOne(claims, Claim_from_json(Head(list))), Tail(list))

RECURSIVE ParseProps(_, _, _)
ParseProps(claims, body, todo) ==
    IF todo = {} THEN claims
    ELSE LET p == CHOOSE q \in todo : TRUE
         IN  ParseProps(ParseList(claims, body[p]), body, todo \ {p})

\* Claims().from_json(body)
Claims_from_json(body) == ParseProps(EmptyClaims, body, DOMAIN body)

----------------------------------------------------------------------------
(* JSON documents of the wire format, as the API helper returns them *)

Statement(p, v, sid) ==
    [mainsnak |-> [property |-> p, datavalue |-> v], id |-> sid]

\* A dictionary of an entity: the keys it holds and their values.
Doc(keys, lastrevid, type, id, claims, statements) ==
    [keys |-> keys, lastrevid |-> lastrevid, type |-> type, id |-> id,
     claims |-> claims, statements |-> statements]

EmptyJson == Doc({}, AbsentRev, Absent, Absent, <<>>, <<>>)

WireBodies ==
    { [p \in {} |-> <<>>],
      [p \in Props |-> IF p = "P1"
                       THEN <<Statement("P1", "a", "s1")>>
                       ELSE <<Statement("P2", "a", "s2")>>] }

\* wbgetentities for an id the instance does not hold.
MissingDocs == {Doc({"id", "missing"}, AbsentRev, Absent, id, <<>>, <<>>) : id \in EntityIds}

ExistingDocs ==
    {Doc({"lastrevid", "type", "id", "claims"}, r, t, id, b, <<>>) :
        r \in 1..MaxRev, t \in {"item", MEDIAINFO}, id \in EntityIds, b \in WireBodies}
    \cup
    {Doc({"lastrevid", "type", "id", "statements"}, r, t, id, <<>>, b) :
        r \in 1..MaxRev, t \in {"item", MEDIAINFO}, id \in EntityIds, b \in WireBodies}

Docs == MissingDocs \cup ExistingDocs

----------------------------------------------------------------------------
(* BaseEntity *)

\* __init__(api, lastrevid, type, id, claims)
NewEntity(lastrevid, type, id, claims) ==
    [lastrevid |-> lastrevid,
     type |-> IF type = None \/ type = "" THEN ETYPE ELSE type,
     id |-> id,
     claims |-> claims,
     json |-> EmptyJson,
     fast_run_container |-> 0]

\* What a call leaves behind for the properties to read: the call, its input,
\* the entity before it (left out by the registry's calls), the exception
\* raised, the API calls made, the value returned.
Event(op, e, input, pre, exc, net, ret) ==
    [op |-> op, e |-> e, input |-> input, pre |-> pre,
     exc |-> exc, net |-> net, ret |-> ret]

NoEvent == Event("init", 0, None, None, "none", 0, None)

\* The lists a caller hands to add_claims: empty, one claim, the same claim
\* twice, two values of a property, two properties.
IncomingLists ==
    { <<>>,
      <<NewClaim("P1", "a")>>,
      <<NewClaim("P1", "b")>>,
      <<NewClaim("P2", "a")>>,
      <<NewClaim("P1", "b"), NewClaim("P1", "b")>>,
      <<NewClaim("P1", "a"), NewClaim("P1", "b")>>,
      <<NewClaim("P1", "b"), NewClaim("P2", "a")>>,
      <<NewClaim("P2", "a"), NewClaim("P1", "a"), NewClaim("P2", "a")>> }

\* The argument kinds a caller hands to add_claims.
ClaimArgs ==
    {[kind |-> "Claim", claim |-> c] : c \in NewClaims}
    \cup {[kind |-> "list", items |-> l] : l \in IncomingLists}
    \cup {[kind |-> "str"], [kind |-> "NoneType"],
          [kind |-> "tuple", items |-> <<NewClaim("P1", "a")>>]}

\* add_claims as a function of the entity's fields: the exception raised (or
\* "none"), the entity afterwards and the number of API calls made.
add_claims_default_policy(self, arg, policy) ==
    IF arg.kind = "Claim"
    THEN [exc |-> "none", net |-> 0,
          self |-> [self EXCEPT !.claims = Claims_add(@, <<arg.claim>>, "APPEND")]]
    ELSE IF arg.kind # "list"
    THEN [exc |-> "TypeError", net |-> 0, self |-> self]
    ELSE [exc |-> "none", net |-> 0,
          self |-> [self EXCEPT !.claims = Claims_add(@, arg.items, "APPEND")]]

add_claims_force(self, arg, policy) ==
    IF arg.kind = "Claim"
    THEN [exc |-> "none", net |-> 0,
          self |-> [self EXCEPT !.claims = Claims_add(@, <<arg.claim>>, "FORCE_APPEND")]]
    ELSE IF arg.kind # "list"
    THEN [exc |-> "TypeError", net |-> 0, self |-> self]
    ELSE [exc |-> "none", net |-> 0,
          self |-> [self EXCEPT !.claims = Claims_add(@, arg.items, "FORCE_APPEND")]]

add_claims_any_argument(self, arg, policy) ==
    IF arg.kind = "Claim"
    THEN [exc |-> "none", net |-> 0,
          self |-> [self EXCEPT !.claims = Claims_add(@, <<arg.claim>>, policy)]]
    ELSE IF arg.kind \notin {"list", "tuple"}
    THEN [exc |-> "none", net |-> 0, self |-> self]
    ELSE [exc |-> "none", net |-> 0,
          self |-> [self EXCEPT !.claims = Claims_add(@, arg.items, policy)]]

add_claims(self, arg, policy) ==
    IF arg.kind = "Claim"
    THEN [exc |-> "none", net |-> 0,
          self |-> [self EXCEPT !.claims = Claims_add(@, <<arg.claim>>, policy)]]
    ELSE IF arg.kind # "list"
    THEN [exc |-> "TypeError", net |-> 0, self |-> self]
    ELSE [exc |-> "none", net |-> 0,
          self |-> [self EXCEPT !.claims = Claims_add(@, arg.items, policy)]]

RECURSIVE Count(_, _)
Count(claims, todo) ==
    IF todo = {} THEN 0
    ELSE LET p == CHOOSE q \in todo : TRUE
         IN  Len(claims[p]) + Count(claims, todo \ {p})

\* The model keeps an entity within MaxClaims claims.
WithinBound(claims) == Count(claims, Props) <= MaxClaims

AddClaims(e) ==
    \E arg \in ClaimArgs, policy \in Policies :
        LET r == add_claims(ent[e], arg, policy)
        IN  /\ WithinBound(r.self.claims)
            /\ ent' = [ent EXCEPT ![e] = r.self]
            /\ last' = Event("add_claims", e, [arg |-> arg, policy |-> policy],
                             ent[e], r.exc, r.net,
                             IF r.exc = "none" THEN "self" ELSE None)
            /\ UNCHANGED <<fast_run_store, config>>

\* get_json with the id dropped only when it is None.
get_json_none_only(self) ==
    LET d0 == [k \in {"type", "id", "claims"} |->
                  CASE k = "type" -> self.type
                    [] k = "id" -> self.id
                    [] k = "claims" -> Claims_get_json(self.claims)]
        d1 == IF self.type = MEDIAINFO
              THEN [k \in (DOMAIN d0 \ {"claims"}) \cup {"statements"} |->
                       IF k = "statements" THEN d0["claims"] ELSE d0[k]]
              ELSE d0
    IN  IF self.id = None
        THEN [k \in DOMAIN d1 \ {"id"} |-> d1[k]]
        ELSE d1

\* get_json: the dictionary built, as key -> value.
get_json(self) ==
    LET d0 == [k \in {"type", "id", "claims"} |->
                  CASE k = "type" -> self.type
                    [] k = "id" -> self.id
                    [] k = "claims" -> Claims_get_json(self.claims)]
        d1 == IF self.type = MEDIAINFO
              THEN [k \in (DOMAIN d0 \ {"claims"}) \cup {"statements"} |->
                       IF k = "statements" THEN d0["claims"] ELSE d0[k]]
              ELSE d0
    IN  IF ~TruthyId(self.id)
        THEN [k \in DOMAIN d1 \ {"id"} |-> d1[k]]
        ELSE d1

GetJson(e) ==
    /\ last' = Event("get_json", e, None, ent[e], "none", 0,
                     get_json(ent[e]))
    /\ UNCHANGED <<ent, fast_run_store, config>>

\* from_json reading 'claims' whatever the type.
from_json_claims_key(self, doc) ==
    LET s0 == [self EXCEPT !.json = doc]
        s1 == [s0 EXCEPT !.lastrevid = doc.lastrevid, !.type = doc.type,
                         !.id = doc.id]
    IN  IF "missing" \in doc.keys
        THEN [exc |-> "ValueError", self |-> s0]
        ELSE IF "claims" \notin doc.keys
             THEN [exc |-> "KeyError", self |-> s1]
             ELSE [exc |-> "none",
                   self |-> [s1 EXCEPT !.claims = Claims_from_json(doc.claims)]]

\* from_json: the exception raised (or "none") and the entity afterwards.
\* Every assignment made before a raise stays.
from_json(self, doc) ==
    LET s0 == [self EXCEPT !.json = doc]
        s1 == [s0 EXCEPT !.lastrevid = doc.lastrevid, !.type = doc.type,
                         !.id = doc.id]
    IN  IF "missing" \in doc.keys
        THEN [exc |-> "ValueError", self |-> s0]
        ELSE IF s1.type = MEDIAINFO
             THEN IF "statements" \notin doc.keys
                  THEN [exc |-> "KeyError", self |-> s1]
                  ELSE [exc |-> "none",
                        self |-> [s1 EXCEPT !.claims = Claims_from_json(doc.statements)]]
             ELSE IF "claims" \notin doc.keys
                  THEN [exc |-> "KeyError", self |-> s1]
                  ELSE [exc |-> "none",
                        self |-> [s1 EXCEPT !.claims = Claims_from_json(doc.claims)]]

FromJson(e) ==
    \E doc \in Docs :
        LET r == from_json(ent[e], doc)
        IN  /\ ent' = [ent EXCEPT ![e] = r.self]
            /\ last' = Event("from_json", e, doc, ent[e], r.exc, 0, None)
            /\ UNCHANGED <<fast_run_store, config>>

\* get: one call of the API helper (wbgetentities), which raises or returns
\* the response {'entities': {entity_id: ...}}; the response is returned as
\* it is and no field of the entity is assigned.
get(self, entity_id, reply) ==
    IF reply.raises
    THEN [exc |-> "HelperError", net |-> 1, self |-> self, ret |-> None]
    ELSE [exc |-> "none", net |-> 1, self |-> self,
          ret |-> [entities |-> [id \in {entity_id} |-> reply.doc]]]

GetReplies(entity_id) ==
    {[raises |-> TRUE]}
    \cup {[raises |-> FALSE, doc |-> d] : d \in {x \in Docs : x.id = entity_id}}

Get(e) ==
    \E entity_id \in EntityIds :
        \E reply \in GetReplies(entity_id) :
            LET r == get(ent[e], entity_id, reply)
            IN  /\ ent' = [ent EXCEPT ![e] = r.self]
                /\ last' = Event("get", e, entity_id, ent[e],
                                 r.exc, r.net, r.ret)
                /\ UNCHANGED <<fast_run_store, config>>

\* What mediawiki_api_call_helper does on wbeditentity: it raises, or returns a
\* dictionary that may hold 'error' (with or without 'messages', which may
\* name the label/description conflict), 'success' and 'entity' (with or
\* without 'id' and 'lastrevid').
WriteReplies ==
    {[raises |-> TRUE, error |-> Absent, success |-> FALSE, entity |-> FALSE,
      id |-> Absent, lastrevid |-> AbsentRev]}
    \cup
    {[raises |-> FALSE, error |-> err, success |-> suc, entity |-> TRUE,
      id |-> id, lastrevid |-> rev] :
        err \in {Absent, "plain", "messages", "conflict"}, suc \in BOOLEAN,
        id \in EntityIds \cup {Absent}, rev \in (1..MaxRev) \cup {AbsentRev}}
    \cup
    {[raises |-> FALSE, error |-> err, success |-> suc, entity |-> FALSE,
      id |-> Absent, lastrevid |-> AbsentRev] :
        err \in {Absent, "plain", "messages", "conflict"}, suc \in BOOLEAN}

\* The payload _write hands to the helper, as key -> value: the keys that
\* depend on the entity and on clear ('summary' and 'bot' are the caller's
\* and the api's, and 'data' the caller's).
Payload(self, clear) ==
    [k \in {"action", "format"}
            \cup (IF clear THEN {"clear"} ELSE {})
            \cup (IF TruthyId(self.id) THEN {"id"} ELSE {"new"})
            \cup (IF TruthyRev(self.lastrevid) THEN {"baserevid"} ELSE {}) |->
        CASE k = "action" -> "wbeditentity"
          [] k = "format" -> "json"
          [] k = "clear" -> TRUE
          [] k = "id" -> self.id
          [] k = "new" -> self.type
          [] k = "baserevid" -> self.lastrevid]

\* _write with the id taken from the response before the error envelope is
\* looked at.
write_id_first(self, clear, reply) ==
    LET s1 == IF ~reply.raises /\ reply.entity /\ reply.id # Absent
              THEN [self EXCEPT !.id = reply.id] ELSE self
    IN  IF reply.raises
        THEN [exc |-> "HelperError", net |-> 1, self |-> s1, ret |-> None]
        ELSE IF reply.error = "conflict"
        THEN [exc |-> "NonUniqueLabelDescriptionPairError", net |-> 1, self |-> s1,
              ret |-> None]
        ELSE IF reply.error # Absent
        THEN [exc |-> "MWApiError", net |-> 1, self |-> s1, ret |-> None]
        ELSE IF ~reply.entity \/ reply.id = Absent
        THEN [exc |-> "KeyError", net |-> 1, self |-> s1, ret |-> None]
        ELSE [exc |-> "none", net |-> 1,
              self |-> IF reply.success /\ reply.lastrevid # AbsentRev
                       THEN [s1 EXCEPT !.lastrevid = reply.lastrevid] ELSE s1,
              ret |-> [id |-> reply.id, lastrevid |-> reply.lastrevid]]

\* _write with the revision marker never taken from the response.
write_keep_rev(self, clear, reply) ==
    IF reply.raises
    THEN [exc |-> "HelperError", net |-> 1, self |-> self, ret |-> None]
    ELSE IF reply.error = "conflict"
    THEN [exc |-> "NonUniqueLabelDescriptionPairError", net |-> 1, self |-> self,
          ret |-> None]
    ELSE IF reply.error # Absent
    THEN [exc |-> "MWApiError", net |-> 1, self |-> self, ret |-> None]
    ELSE IF ~reply.entity \/ reply.id = Absent
    THEN [exc |-> "KeyError", net |-> 1, self |-> self, ret |-> None]
    ELSE [exc |-> "none", net |-> 1, self |-> [self EXCEPT !.id = reply.id],
          ret |-> [id |-> reply.id, lastrevid |-> reply.lastrevid]]

\* _write: the exception raised (or "none"), the entity afterwards, the entity
\* dictionary returned.  The try block raises on a helper failure and on an
\* error envelope; json_data['entity']['id'] raises KeyError when either key
\* is not there, before anything is assigned.
write(self, clear, reply) ==
    IF reply.raises
    THEN [exc |-> "HelperError", net |-> 1, self |-> self, ret |-> None]
    ELSE IF reply.error = "conflict"
    THEN [exc |-> "NonUniqueLabelDescriptionPairError", net |-> 1, self |-> self,
          ret |-> None]
    ELSE IF reply.error # Absent
    THEN [exc |-> "MWApiError", net |-> 1, self |-> self, ret |-> None]
    ELSE IF ~reply.entity \/ reply.id = Absent
    THEN [exc |-> "KeyError", net |-> 1, self |-> self, ret |-> None]
    ELSE [exc |-> "none", net |-> 1,
          self |-> IF reply.success /\ reply.lastrevid # AbsentRev
                   THEN [self EXCEPT !.id = reply.id, !.lastrevid = reply.lastrevid]
                   ELSE [self EXCEPT !.id = reply.id],
          ret |-> [id |-> reply.id, lastrevid |-> reply.lastrevid]]

\* _write(clear=...)
Write(e) ==
    \E clear \in BOOLEAN, reply \in WriteReplies :
        LET r == write(ent[e], clear, reply)
        IN  /\ ent' = [ent EXCEPT ![e] = r.self]
            /\ last' = Event("_write", e,
                             [payload |-> Payload(ent[e], clear), reply |-> reply],
                             ent[e], r.exc, r.net, r.ret)
            /\ UNCHANGED <<fast_run_store, config>>

\* clear(), which is _write(clear=True) with its result dropped.
Clear(e) ==
    \E reply \in WriteReplies :
        LET r == write(ent[e], TRUE, reply)
        IN  /\ ent' = [ent EXCEPT ![e] = r.self]
            /\ last' = Event("clear", e,
                             [payload |-> Payload(ent[e], TRUE), reply |-> reply],
                             ent[e], r.exc, r.net, None)
            /\ UNCHANGED <<fast_run_store, config>>

----------------------------------------------------------------------------
(* The fast-run registry *)

Endpoints == {"https://query.a/sparql", "https://query.b/sparql"}

EmptyFilter == [p \in {} |-> ""]

\* The keyword arguments a caller hands to init_fastrun, fr_search and
\* write_required; base_filter may be left out (None).
FastRunArgs ==
    { [none |-> TRUE, base_filter |-> EmptyFilter, use_refs |-> FALSE,
       case_insensitive |-> FALSE],
      [none |-> FALSE, base_filter |-> EmptyFilter, use_refs |-> FALSE,
       case_insensitive |-> FALSE],
      [none |-> FALSE, base_filter |-> [p \in {"P1"} |-> "Q5"], use_refs |-> FALSE,
       case_insensitive |-> FALSE],
      [none |-> FALSE, base_filter |-> [p \in {"P1"} |-> "Q5"], use_refs |-> TRUE,
       case_insensitive |-> FALSE],
      [none |-> FALSE, base_filter |-> [p \in {"P1"} |-> "Q5"], use_refs |-> FALSE,
       case_insensitive |-> TRUE] }

\* base_filter after "if base_filter is None: base_filter = {}".
FilterOf(args) == IF args.none THEN EmptyFilter ELSE args.base_filter

\* FastRunContainer(base_filter, use_refs, base_data_type, case_insensitive):
\* the endpoint is the configured one, no entity is loaded yet.
FastRunContainer(base_filter, use_refs, case_insensitive, cfg) ==
    [base_filter |-> base_filter, use_refs |-> use_refs,
     case_insensitive |-> case_insensitive,
     sparql_endpoint_url |-> cfg.SPARQL_ENDPOINT_URL,
     current_qid |-> ""]

\* The comparison made on object identity: a dictionary built by the caller
\* is never the stored one.
Matches_identity(store, base_filter, use_refs, case_insensitive, cfg) == {}

\* The registry entries the loop of init_fastrun finds equal to the request.
Matches(store, base_filter, use_refs, case_insensitive, cfg) ==
    {i \in 1..Len(store) :
        /\ store[i].base_filter = base_filter
        /\ store[i].use_refs = use_refs
        /\ store[i].case_insensitive = case_insensitive
        /\ store[i].sparql_endpoint_url = cfg.SPARQL_ENDPOINT_URL}

MaxOf(S) == CHOOSE x \in S : \A y \in S : y <= x

\* init_fastrun: the entity and the registry afterwards.  The loop has no
\* break: every match is reset and the last one is kept; a container is
\* created only when the entity holds none after the loop.
init_fastrun(self, store, cfg, args) ==
    LET bf == FilterOf(args)
        m == Matches(store, bf, args.use_refs, args.case_insensitive, cfg)
        store1 == IF store = <<>> THEN <<>>
                  ELSE [i \in 1..Len(store) |->
                           IF i \in m THEN [store[i] EXCEPT !.current_qid = ""]
                           ELSE store[i]]
        frc1 == IF m = {} THEN self.fast_run_container ELSE MaxOf(m)
    IN  IF frc1 = 0
        THEN [self |-> [self EXCEPT !.fast_run_container = Len(store1) + 1],
              store |-> Append(store1,
                               FastRunContainer(bf, args.use_refs,
                                                args.case_insensitive, cfg))]
        ELSE [self |-> [self EXCEPT !.fast_run_container = frc1],
              store |-> store1]

InitFastrun(e) ==
    \E args \in FastRunArgs :
        LET r == init_fastrun(ent[e], fast_run_store, config, args)
        IN  /\ ent' = [ent EXCEPT ![e] = r.self]
            /\ fast_run_store' = r.store
            /\ last' = Event("init_fastrun", e, args, None, "none", 0, None)
            /\ UNCHANGED config

\* FastRunContainer.load_item(claims): the container resolves the entity the
\* claims belong to; the id found (or '') is its current_qid.
load_item(container, claims, qid) == [container EXCEPT !.current_qid = qid]

\* fr_search(**kwargs)
FrSearch(e) ==
    \E args \in FastRunArgs, qid \in {"", "Q1"} :
        LET r == init_fastrun(ent[e], fast_run_store, config, args)
            c == r.self.fast_run_container
            store2 == [r.store EXCEPT ![c] = load_item(@, r.self.claims, qid)]
        IN  /\ ent' = [ent EXCEPT ![e] = r.self]
            /\ fast_run_store' = store2
            /\ last' = Event("fr_search", e, args, None, "none", 0,
                             store2[c].current_qid)
            /\ UNCHANGED config

\* The claims write_required hands to the container: those whose property is
\* a key of base_filter.
claims_to_check(self, base_filter) ==
    UNION {Range(self.claims[p]) : p \in Props \cap DOMAIN base_filter}

\* write_required(base_filter, **kwargs): the call handed to the container,
\* whose answer is returned as it is.
WriteRequired(e) ==
    \E args \in FastRunArgs :
        LET r == init_fastrun(ent[e], fast_run_store, config, args)
        IN  /\ ent' = [ent EXCEPT ![e] = r.self]
            /\ fast_run_store' = r.store
            /\ last' = Event("write_required", e, args, None, "none", 0,
                             [data |-> claims_to_check(r.self, FilterOf(args)),
                              cqid |-> r.self.id])
            /\ UNCHANGED config

\* config['SPARQL_ENDPOINT_URL'] = ...
SetEndpoint ==
    \E url \in Endpoints :
        /\ url # config.SPARQL_ENDPOINT_URL
        /\ config' = [config EXCEPT !.SPARQL_ENDPOINT_URL = url]
        /\ last' = Event("config", 0, url, None, "none", 0, None)
        /\ UNCHANGED <<ent, fast_run_store>>

----------------------------------------------------------------------------
(* Specifications *)

DefaultEndpoint == CHOOSE url \in Endpoints : url = "https://query.a/sparql"

\* The claims an entity may be constructed with (claims=...): as read from
\* the instance earlier.
CtorClaims == {Claims_from_json(b) : b \in WireBodies}

Registry ==
    /\ fast_run_store = <<>>
    /\ config = [SPARQL_ENDPOINT_URL |-> DefaultEndpoint]
    /\ last = NoEvent

\* Claim attachment: one entity, constructed with the claims it was read with.
InitClaims ==
    /\ \E claims \in CtorClaims :
            ent = [e \in {1} |-> NewEntity(NoRev, None, None, claims)]
    /\ Registry

NextClaims == \E e \in DOMAIN ent : AddClaims(e)

SpecClaims == InitClaims /\ [][NextClaims]_vars

\* One entity, constructed with any of the arguments __init__ takes.
InitEntity ==
    /\ \E rev \in {NoRev, 0, 1}, type \in {None, MEDIAINFO},
          id \in {None, "", "Q1"}, claims \in CtorClaims :
            ent = [e \in {1} |-> NewEntity(rev, type, id, claims)]
    /\ Registry

\* Reading: fetching, parsing and serializing.
NextRead ==
    \/ \E e \in DOMAIN ent : Get(e)
    \/ \E e \in DOMAIN ent : FromJson(e)
    \/ \E e \in DOMAIN ent : GetJson(e)

SpecRead == InitEntity /\ [][NextRead]_vars

\* Writing through the API helper.
NextWrite ==
    \/ \E e \in DOMAIN ent : Write(e)
    \/ \E e \in DOMAIN ent : Clear(e)

SpecWrite == InitEntity /\ [][NextWrite]_vars

\* Two entities, one unbound and one bound, sharing the registry.
InitFastRun ==
    /\ ent = [e \in {1, 2} |->
                IF e = 1 THEN NewEntity(NoRev, None, None, EmptyClaims)
                ELSE NewEntity(1, "item", "Q1",
                               Claims_add(EmptyClaims,
                                          <<NewClaim("P1", "a"), NewClaim("P2", "a")>>,
                                          "APPEND"))]
    /\ Registry

NextFastRun ==
    \/ \E e \in DOMAIN ent : InitFastrun(e)
    \/ \E e \in DOMAIN ent : FrSearch(e)
    \/ \E e \in DOMAIN ent : WriteRequired(e)
    \/ SetEndpoint

SpecFastRun == InitFastRun /\ [][NextFastRun]_vars

----------------------------------------------------------------------------
(* The properties *)

IsWrite == last.op \in {"_write", "clear"}

\* A write that fails: the helper raises, the response carries 'error', or
\* the response holds no 'entity'.
FailingReply(r) == r.raises \/ r.error # Absent \/ ~r.entity

SameCore(a, b) ==
    /\ a.id = b.id
    /\ a.lastrevid = b.lastrevid
    /\ a.type = b.type
    /\ a.claims = b.claims

\* C1: a failing write (_write or clear) raises and leaves the entity's id,
\* lastrevid, type and claims as they were before the call.
C1_FailedWriteKeepsEntity ==
    (IsWrite /\ FailingReply(last.input.reply)) =>
        /\ last.exc # "none"
        /\ SameCore(ent[last.e], last.pre)

\* C1's case: an error envelope that also carries an entity with another id.
C1_Witness ==
    /\ IsWrite
    /\ last.input.reply.error = "messages"
    /\ last.input.reply.entity
    /\ last.input.reply.id \in EntityIds \ {last.pre.id}
    /\ last.exc = "MWApiError"
    /\ TruthyId(last.pre.id)

\* C2 as stated: whenever _write returns without raising, the id and the
\* lastrevid are those the response's entity carries.
C2_Original ==
    (IsWrite /\ last.exc = "none" /\ last.input.reply.lastrevid # AbsentRev) =>
        /\ ent[last.e].id = last.input.reply.id
        /\ ent[last.e].lastrevid = last.input.reply.lastrevid

\* C2 amended: whenever _write returns without raising, the id is the one the
\* response's entity carries; the lastrevid is the one it carries when the
\* response holds 'success' and its entity holds 'lastrevid', and is left
\* as it was otherwise.
C2_WriteUpdatesIdAndRev ==
    (IsWrite /\ last.exc = "none") =>
        /\ ent[last.e].id = last.input.reply.id
        /\ ent[last.e].lastrevid =
               IF last.input.reply.success /\ last.input.reply.lastrevid # AbsentRev
               THEN last.input.reply.lastrevid
               ELSE last.pre.lastrevid
        /\ ent[last.e].type = last.pre.type
        /\ ent[last.e].claims = last.pre.claims

\* C2's case: an unbound entity written, the response carrying a new id and
\* a new revision.
C2_Witness ==
    /\ last.op = "_write"
    /\ last.exc = "none"
    /\ ~TruthyId(last.pre.id)
    /\ "new" \in DOMAIN last.input.payload
    /\ last.input.reply.success
    /\ last.input.reply.lastrevid \notin {AbsentRev, last.pre.lastrevid}
    /\ ent[last.e].lastrevid = last.input.reply.lastrevid

\* The list add_claims hands to the container for an accepted argument.
Incoming(arg) == IF arg.kind = "Claim" THEN <<arg.claim>> ELSE arg.items

Accepted == last.op = "add_claims" /\ last.exc = "none"

Under(policy) == Accepted /\ last.input.policy = policy

\* C4: add_claims with an argument that is neither a Claim nor a list raises
\* TypeError, makes no API call and leaves the claims as they were; a Claim
\* or a list is accepted and handed to the claim container with the policy.
C4_AddClaimsArgument ==
    last.op = "add_claims" =>
        IF last.input.arg.kind \in {"Claim", "list"}
        THEN /\ last.exc = "none"
             /\ ent[last.e].claims =
                    Claims_add(last.pre.claims, Incoming(last.input.arg),
                               last.input.policy)
        ELSE /\ last.exc = "TypeError"
             /\ last.net = 0
             /\ ent[last.e] = last.pre

\* C4's case: a tuple of claims handed to an entity that holds claims.
C4_Witness ==
    /\ last.op = "add_claims"
    /\ last.input.arg.kind = "tuple"
    /\ last.exc = "TypeError"
    /\ last.pre.claims["P1"] # <<>>

CountEq(list, c) == Cardinality({i \in 1..Len(list) : ClaimEq(list[i], c)})

IsPrefix(a, b) == Len(a) <= Len(b) /\ \A i \in 1..Len(a) : b[i] = a[i]

\* C6: under APPEND no existing claim is lost or changed, every claim added
\* is an incoming one, an incoming (property, value) pair already present is
\* dropped, one not present ends up exactly once however often the list
\* repeats it, and the same APPEND applied again changes nothing.
C6_AppendNoDuplicate ==
    Under("APPEND") =>
        LET old == last.pre.claims
            new == ent[last.e].claims
            inc == Incoming(last.input.arg)
        IN  /\ \A p \in Props : IsPrefix(old[p], new[p])
            /\ \A p \in Props : \A i \in (Len(old[p]) + 1)..Len(new[p]) :
                   new[p][i] \in Range(inc)
            /\ \A c \in Range(inc) :
                   CountEq(new[c.prop], c) =
                       IF Present(old[c.prop], c) THEN CountEq(old[c.prop], c) ELSE 1
            /\ add_claims(ent[last.e], last.input.arg, "APPEND").self.claims = new

\* C6's case: the list repeats a pair the entity does not hold, beside
\* claims it holds.
C6_Witness ==
    /\ Under("APPEND")
    /\ last.input.arg.kind = "list"
    /\ last.pre.claims["P1"] # <<>>
    /\ \E i, j \in 1..Len(last.input.arg.items) :
           /\ i # j
           /\ last.input.arg.items[i] = last.input.arg.items[j]
           /\ ~Present(last.pre.claims["P1"], last.input.arg.items[i])
           /\ CountEq(ent[last.e].claims["P1"], last.input.arg.items[i]) = 1

\* The incoming claims of property p, in their order.
OfProp(inc, p) == SelectSeq(inc, LAMBDA c : c.prop = p)

\* C7: under REPLACE, for every property of the incoming list the claims held
\* afterwards are as many as before plus the incoming ones of the property,
\* every claim held before is flagged removed and no incoming one is.
C7_ReplaceCounts ==
    Under("REPLACE") =>
        LET old == last.pre.claims
            new == ent[last.e].claims
            inc == Incoming(last.input.arg)
        IN  \A p \in {c.prop : c \in Range(inc)} :
               /\ Len(new[p]) = Len(old[p]) + Len(OfProp(inc, p))
               /\ \A i \in 1..Len(old[p]) :
                      /\ new[p][i].removed
                      /\ ClaimEq(new[p][i], old[p][i])
                      /\ new[p][i].id = old[p][i].id
               /\ \A i \in 1..Len(OfProp(inc, p)) :
                      /\ ~new[p][Len(old[p]) + i].removed
                      /\ new[p][Len(old[p]) + i] = OfProp(inc, p)[i]

\* C7's case: a property that holds a claim read from the instance is
\* replaced by two incoming claims.
C7_Witness ==
    /\ Under("REPLACE")
    /\ \E i \in 1..Len(last.pre.claims["P1"]) :
           /\ last.pre.claims["P1"][i].id # None
           /\ ~last.pre.claims["P1"][i].removed
    /\ Len(OfProp(Incoming(last.input.arg), "P1")) = 2
    /\ Len(ent[last.e].claims["P1"]) >= 3

\* C8: under KEEP a property that holds a claim keeps its claims as they are,
\* a property that holds none gets the incoming claims of that property as
\* they are, and so a property the list does not name is not affected.
C8_KeepFrame ==
    Under("KEEP") =>
        LET old == last.pre.claims
            new == ent[last.e].claims
            inc == Incoming(last.input.arg)
        IN  \A p \in Props :
               new[p] = IF old[p] # <<>> THEN old[p] ELSE OfProp(inc, p)

\* C8's case: one list for a property that holds a claim and for one that
\* holds none.
C8_Witness ==
    /\ Under("KEEP")
    /\ last.pre.claims["P1"] # <<>>
    /\ last.pre.claims["P2"] = <<>>
    /\ OfProp(Incoming(last.input.arg), "P1") # <<>>
    /\ OfProp(Incoming(last.input.arg), "P2") # <<>>
    /\ ent[last.e].claims["P2"] # <<>>

\* The key the claims of an entity of this type travel under.
ClaimsKey(type) == IF type = MEDIAINFO THEN "statements" ELSE "claims"

\* The claims a list of wire statements stands for.
Parsed(body, p) ==
    IF p \in DOMAIN body
    THEN [i \in 1..Len(body[p]) |->
             [prop |-> body[p][i].mainsnak.property,
              value |-> body[p][i].mainsnak.datavalue,
              id |-> body[p][i].id, removed |-> FALSE]]
    ELSE <<>>

\* The entity holds what the document of an existing entity says.
BoundTo(self, doc) ==
    /\ ClaimsKey(doc.type) \in doc.keys
    /\ self.id = doc.id
    /\ self.lastrevid = doc.lastrevid
    /\ self.type = doc.type
    /\ \A p \in Props :
           self.claims[p] =
               Parsed(IF doc.type = MEDIAINFO THEN doc.statements ELSE doc.claims, p)

\* C5 as stated: after get(entity_id) returns for an existing entity, the
\* entity's id, lastrevid, type and claims are those of the fetched JSON.
C5_Original ==
    (/\ last.op = "get"
     /\ last.exc = "none"
     /\ "missing" \notin last.ret.entities[last.input].keys
     /\ ClaimsKey(last.ret.entities[last.input].type)
            \in last.ret.entities[last.input].keys) =>
        BoundTo(ent[last.e], last.ret.entities[last.input])

\* C5 amended: get(entity_id) returns the fetched JSON and leaves the entity
\* as it was; it is from_json that, when it returns for the JSON of an
\* existing entity, leaves the entity with the id, lastrevid, type and claims
\* parsed from it (the claims read from 'statements' instead of 'claims'
\* when the type is mediainfo).
C5_FromJsonBinds ==
    /\ last.op = "get" =>
           /\ ent[last.e] = last.pre
           /\ last.net = 1
           /\ last.exc = "none" =>
                  /\ DOMAIN last.ret.entities = {last.input}
                  /\ last.ret.entities[last.input].id = last.input
    /\ (last.op = "from_json" /\ last.exc = "none") =>
           /\ "missing" \notin last.input.keys
           /\ BoundTo(ent[last.e], last.input)
           /\ ent[last.e].json = last.input

\* C5's case: an unbound entity parses the JSON of a mediainfo entity.
C5_Witness ==
    /\ last.op = "from_json"
    /\ last.exc = "none"
    /\ ~TruthyId(last.pre.id)
    /\ last.input.type = MEDIAINFO
    /\ last.pre.type # MEDIAINFO
    /\ last.pre.claims = EmptyClaims
    /\ ent[last.e].claims["P1"] # <<>>
    /\ TruthyId(ent[last.e].id)

\* C9: get_json emits the type, the id exactly when the entity has one, and
\* the serialized claims under 'statements' for mediainfo and under 'claims'
\* for every other type, never both.
C9_GetJsonKeys ==
    last.op = "get_json" =>
        LET self == ent[last.e]
            d == last.ret
        IN  /\ DOMAIN d = {"type", ClaimsKey(self.type)}
                              \cup (IF TruthyId(self.id) THEN {"id"} ELSE {})
            /\ d["type"] = self.type
            /\ TruthyId(self.id) => d["id"] = self.id
            /\ d[ClaimsKey(self.type)] = Claims_get_json(self.claims)
            /\ self = last.pre

\* C9's case: a mediainfo entity whose id is the empty string and which
\* holds claims.
C9_Witness ==
    /\ last.op = "get_json"
    /\ ent[last.e].type = MEDIAINFO
    /\ ent[last.e].id = ""
    /\ ent[last.e].claims["P1"] # <<>>
    /\ "statements" \in DOMAIN last.ret
    /\ "id" \notin DOMAIN last.ret

----------------------------------------------------------------------------
(* The properties of the registry *)

IsFastRun == last.op \in {"init_fastrun", "fr_search", "write_required"}

\* What the registry compares: (base_filter, use_refs, case_insensitive,
\* endpoint).
SigOf(c) == <<c.base_filter, c.use_refs, c.case_insensitive, c.sparql_endpoint_url>>

Requested(args, cfg) ==
    <<FilterOf(args), args.use_refs, args.case_insensitive, cfg.SPARQL_ENDPOINT_URL>>

\* C3 as stated: right after an entity calls init_fastrun (directly or through
\* fr_search or write_required), its fast_run_container is the registry entry
\* whose signature equals the parameters of the call.
C3_ContainerMatchesRequest ==
    IsFastRun =>
        /\ ent[last.e].fast_run_container \in 1..Len(fast_run_store)
        /\ SigOf(fast_run_store[ent[last.e].fast_run_container]) =
               Requested(last.input, config)

NoDuplicates ==
    \A i, j \in 1..Len(fast_run_store) :
        SigOf(fast_run_store[i]) = SigOf(fast_run_store[j]) => i = j

\* A step keeps every instance of the registry in its place and adds at most
\* one: the instance of the signature the step asks for, which no instance
\* had.
GrowsLazily ==
    /\ Len(fast_run_store') \in {Len(fast_run_store), Len(fast_run_store) + 1}
    /\ \A i \in 1..Len(fast_run_store) :
           SigOf(fast_run_store'[i]) = SigOf(fast_run_store[i])
    /\ Len(fast_run_store') = Len(fast_run_store) + 1 =>
           /\ last'.op \in {"init_fastrun", "fr_search", "write_required"}
           /\ SigOf(fast_run_store'[Len(fast_run_store')]) =
                  Requested(last'.input, config)
           /\ \A i \in 1..Len(fast_run_store) :
                  SigOf(fast_run_store[i]) # Requested(last'.input, config)

====
